---------------------------- MODULE Spec2Model ----------------------------
(***************************************************************************)
(* Model of the Pokemon catalog service (src/index.js): the Express route  *)
(* handlers over the Mongoose collection `Pokemon`.                        *)
(*                                                                         *)
(* Strings that the code parses (query parameters, path parameters) are    *)
(* sequences of one-character strings, so that parseInt, Number, split and *)
(* the regular-expression match are computed character by character.       *)
(* A JavaScript number is a record [nan, val]: NaN is [nan |-> TRUE].      *)
(* The collection is a sequence of documents in the store's natural        *)
(* (insertion) order; a find() without sort() yields that order.           *)
(***************************************************************************)
EXTENDS Integers, Sequences, FiniteSets, TLC

VARIABLES
    store,        \* the collection, in natural order
    uniqueIndex,  \* whether the collection enforces a unique index on id
    pc,           \* per client: "idle", or "saving" between POST's read and save
    newId,        \* per client: POST's local newId (line 163)
    postBody,     \* per client: the body of the POST it is handling
    req,          \* the request being / last handled
    resp,         \* the response sent for it
    loc,          \* the handler's locals page, limit, skip
    allocLog      \* history: ids assigned by successful POSTs, in order

vars == <<store, uniqueIndex, pc, newId, postBody, req, resp, loc, allocLog>>

---------------------------------------------------------------------------
(* Bounds of the model *)

MaxStore == 2      \* documents in the collection under Spec / SeqSpec
MaxId == 3         \* largest id a POST may allocate or a PUT may supply
MaxPosts == 2      \* successful POSTs recorded in a behaviour
MaxRecs == 3       \* documents in the collection under QuerySpec

(* Program constants *)

DefaultPage == 1
DefaultLimit == 20

Clients == {"c1", "c2"}

---------------------------------------------------------------------------
(* JavaScript strings and numbers *)

Digits == <<"0", "1", "2", "3", "4", "5", "6", "7", "8", "9">>

IsDigit(c) == \E i \in 1..10 : Digits[i] = c

DigitVal(c) == (CHOOSE i \in 1..10 : Digits[i] = c) - 1

IsSpace(c) == c = " "

NaN == [nan |-> TRUE, val |-> 0]

Num(n) == [nan |-> FALSE, val |-> n]

isNaN(x) == x.nan

RECURSIVE TrimLeft(_)
TrimLeft(s) ==
    IF s # <<>> /\ IsSpace(Head(s)) THEN TrimLeft(Tail(s)) ELSE s

RECURSIVE TrimRight(_)
TrimRight(s) ==
    IF s # <<>> /\ IsSpace(s[Len(s)])
    THEN TrimRight(SubSeq(s, 1, Len(s) - 1))
    ELSE s

\* the value of the longest prefix of decimal digits of s, given the value
\* acc of the digits already read
RECURSIVE DigitsPrefix(_, _)
DigitsPrefix(s, acc) ==
    IF s # <<>> /\ IsDigit(Head(s))
    THEN DigitsPrefix(Tail(s), 10 * acc + DigitVal(Head(s)))
    ELSE acc

AllDigits(s) == s # <<>> /\ \A i \in 1..Len(s) : IsDigit(s[i])

HasSign(s) == s # <<>> /\ Head(s) \in {"-", "+"}

Signed(s, n) == IF s # <<>> /\ Head(s) = "-" THEN 0 - n ELSE n

\* parseInt(string), radix 10: leading white space, an optional sign, then
\* the longest prefix of digits; NaN when there is no digit.  A missing
\* parameter (undefined) is passed as UNDEF.
UNDEF == <<"undefined">>

parseInt(s) ==
    LET t == TrimLeft(s)
        u == IF HasSign(t) THEN Tail(t) ELSE t
    IN  IF s = UNDEF \/ u = <<>> \/ ~IsDigit(Head(u))
        THEN NaN
        ELSE Num(Signed(t, DigitsPrefix(u, 0)))

\* Number(string): white space trimmed at both ends; the empty string is 0;
\* otherwise the whole string must be an optionally signed decimal literal.
Number(s) ==
    LET t == TrimRight(TrimLeft(s))
        u == IF HasSign(t) THEN Tail(t) ELSE t
    IN  IF t = <<>> THEN Num(0)
        ELSE IF AllDigits(u) THEN Num(Signed(t, DigitsPrefix(u, 0)))
        ELSE NaN

\* x || d for a number x: NaN and 0 are falsy
OrDefault(x, d) == IF x.nan \/ x.val = 0 THEN d ELSE x.val

\* String.prototype.split(",")
RECURSIVE SplitComma(_, _)
SplitComma(s, cur) ==
    IF s = <<>> THEN <<cur>>
    ELSE IF Head(s) = "," THEN <<cur>> \o SplitComma(Tail(s), <<>>)
    ELSE SplitComma(Tail(s), Append(cur, Head(s)))

split(s) == SplitComma(s, <<>>)

\* Math.ceil(a / b) for integers a >= 0 and b # 0 (-0 is serialised as 0)
MathCeilDiv(a, b) ==
    IF b > 0 THEN (a + b - 1) \div b
    ELSE 0 - (a \div (0 - b))

SeqToSet(s) == {s[i] : i \in 1..Len(s)}

---------------------------------------------------------------------------
(* Documents of the collection (schema/pokemon.js) *)

statFields == <<"HP", "Attack", "Defense", "SpecialAttack", "SpecialDefense", "Speed">>

StatNames == SeqToSet(statFields)

NameFields == {"english", "french", "japanese", "chinese"}

Base(hp, at, df, sa, sd, sp) ==
    [HP |-> hp, Attack |-> at, Defense |-> df,
     SpecialAttack |-> sa, SpecialDefense |-> sd, Speed |-> sp]

Doc(id, name, type, base, image) ==
    [id |-> id, name |-> name, type |-> type, base |-> base, image |-> image]

\* `http://localhost:3000/assets/pokemons/${newId}.png`
DefaultImage(id) == <<"http://localhost:3000/assets/pokemons/", id, ".png">>

Grass == <<"G", "r", "a", "s", "s">>
Poison == <<"P", "o", "i", "s", "o", "n">>
Fire == <<"F", "i", "r", "e">>
Water == <<"W", "a", "t", "e", "r">>
Flying == <<"F", "l", "y", "i", "n", "g">>

NameA == [english |-> <<"B", "u", "l">>, french |-> <<"B", "u", "l", "b">>,
          japanese |-> <<"f", "u">>, chinese |-> <<"m", "i">>]
NameB == [english |-> <<"C", "h", "a">>, french |-> <<"S", "a", "l">>,
          japanese |-> <<"h", "i">>, chinese |-> <<"x", "i">>]
NameC == [english |-> <<"S", "q", "u">>, french |-> <<"C", "a", "r">>,
          japanese |-> <<"z", "e">>, chinese |-> <<"j", "i">>]
NameD == [english |-> <<"Z", "a", "r">>, french |-> <<"D", "r", "a">>,
          japanese |-> <<"r", "i">>, chinese |-> <<"p", "e">>]

BaseA == Base(1, 2, 2, 3, 3, 1)
BaseB == Base(2, 3, 2, 2, 1, 3)
BaseC == Base(3, 1, 3, 1, 2, 2)
BaseD == Base(2, 2, 2, 3, 2, 3)

CustomImage == <<"http://img/custom.png">>

---------------------------------------------------------------------------
(* The collection's primitives, as the handlers use them *)

Ids(s) == {s[i].id : i \in 1..Len(s)}

\* insertion of x into a sequence sorted ascending by id, after the
\* documents whose id is not larger (a stable sort)
RECURSIVE InsertById(_, _)
InsertById(sorted, x) ==
    IF sorted = <<>> THEN <<x>>
    ELSE IF Head(sorted).id <= x.id
         THEN <<Head(sorted)>> \o InsertById(Tail(sorted), x)
         ELSE <<x>> \o sorted

\* .sort({ id: 1 })
RECURSIVE SortAsc(_)
SortAsc(s) ==
    IF s = <<>> THEN <<>>
    ELSE InsertById(SortAsc(SubSeq(s, 1, Len(s) - 1)), s[Len(s)])

\* a variant whose bounds are exclusive ($gt, $lt)
MatchesClause_Exclusive(d, k, clause) ==
    IF k = "type"
    THEN \E i \in 1..Len(d.type) : d.type[i] \in SeqToSet(clause.in)
    ELSE /\ ("gte" \in DOMAIN clause => d.base[k] > clause.gte.val)
         /\ ("lte" \in DOMAIN clause => d.base[k] < clause.lte.val)

\* does the document satisfy the clause that the filter holds under key k
MatchesClause(d, k, clause) ==
    IF k = "type"
    THEN \E i \in 1..Len(d.type) : d.type[i] \in SeqToSet(clause.in)
    ELSE /\ ("gte" \in DOMAIN clause => d.base[k] >= clause.gte.val)
         /\ ("lte" \in DOMAIN clause => d.base[k] <= clause.lte.val)

\* the clauses of a filter object combine with AND
Matches(d, filter) ==
    \A k \in DOMAIN filter : MatchesClause(d, k, filter[k])

RECURSIVE Select(_, _)
Select(s, filter) ==
    IF s = <<>> THEN <<>>
    ELSE IF Matches(Head(s), filter)
         THEN <<Head(s)>> \o Select(Tail(s), filter)
         ELSE Select(Tail(s), filter)

\* Pokemon.find(filter), no sort: the matching documents in natural order
Find(s, filter) == Select(s, filter)

\* Pokemon.countDocuments(filter)
CountDocuments(s, filter) == Len(Select(s, filter))

Abs(n) == IF n < 0 THEN 0 - n ELSE n

Min(a, b) == IF a <= b THEN a ELSE b

\* .skip(skip).limit(limit) of a cursor: a negative limit is taken as its
\* absolute value, a limit of 0 is no limit
SkipLimit(s, skip, limit) ==
    LET n == IF limit = 0 THEN Len(s) ELSE Abs(limit)
    IN  SubSeq(s, skip + 1, Min(Len(s), skip + n))

\* a number cast for the query fails on NaN (CastError)
CastFails(x) == isNaN(x)

\* does some bound of the filter fail to cast
FilterCastFails(filter) ==
    \E k \in DOMAIN filter \ {"type"} :
        \E op \in DOMAIN filter[k] : CastFails(filter[k][op])

EmptyFilter == [k \in {} |-> 0]

---------------------------------------------------------------------------
(* Requests and responses *)

EmptyQuery == [k \in {} |-> <<>>]

QParam(k, v) == [x \in {k} |-> v]

\* req.query[k]: undefined when the parameter is absent
Param(q, k) == IF k \in DOMAIN q THEN q[k] ELSE UNDEF

Request(route, query, id, body) ==
    [route |-> route, query |-> query, id |-> id, body |-> body]

NoReq == Request("none", EmptyQuery, <<>>, EmptyQuery)

NoResp == [status |-> 0]

NoLoc == [page |-> 0, limit |-> 0, skip |-> 0]

ErrorResp(status, msg) == [status |-> status, error |-> msg]

Envelope(pokemons, page, limit, total) ==
    [status |-> 200, pokemons |-> pokemons, page |-> page, limit |-> limit,
     total |-> total, totalPages |-> MathCeilDiv(total, limit)]

DocsResp(docs) == [status |-> 200, docs |-> docs]

\* const page = parseInt(req.query.page) || 1
ResolvePage(q) == OrDefault(parseInt(Param(q, "page")), DefaultPage)

\* const limit = parseInt(req.query.limit) || 20
ResolveLimit(q) == OrDefault(parseInt(Param(q, "limit")), DefaultLimit)

\* a variant that counts pages from 0
Skip_PageTimesLimit(page, limit) == page * limit

\* const skip = (page - 1) * limit
Skip(page, limit) == (page - 1) * limit

Locals(q) ==
    [page |-> ResolvePage(q), limit |-> ResolveLimit(q),
     skip |-> Skip(ResolvePage(q), ResolveLimit(q))]

\* countDocuments, then find().sort({id: 1}).skip(skip).limit(limit), then
\* the envelope; the store refuses a negative skip, which the catch answers
PagedResponse(s, filter, l) ==
    IF FilterCastFails(filter) THEN ErrorResp(500, "CastError")
    ELSE IF l.skip < 0 THEN ErrorResp(500, "negative skip")
    ELSE Envelope(SkipLimit(SortAsc(Find(s, filter)), l.skip, l.limit),
                  l.page, l.limit, CountDocuments(s, filter))

---------------------------------------------------------------------------
(* GET /pokemon/search: the pattern { $regex: name, $options: 'i' } *)

Upper == <<"A", "B", "C", "D", "S", "Z">>
Lower == <<"a", "b", "c", "d", "s", "z">>

ToLower(c) ==
    IF \E i \in 1..Len(Upper) : Upper[i] = c
    THEN Lower[CHOOSE i \in 1..Len(Upper) : Upper[i] = c]
    ELSE c

\* one pattern character against one text character: "." is the regular
\* expression's wildcard, any other character of the alphabet is itself,
\* letters compared without case
CharMatches(pch, tch) == pch = "." \/ ToLower(pch) = ToLower(tch)

RegexMatchesAt(pat, text, at) ==
    /\ at + Len(pat) - 1 <= Len(text)
    /\ \A i \in 1..Len(pat) : CharMatches(pat[i], text[at + i - 1])

\* an unanchored pattern matches when it matches at some offset
RegexTest(pat, text) == \E at \in 1..(Len(text) + 1) : RegexMatchesAt(pat, text, at)

\* the $or over the four name fields
NameMatches(d, pat) == \E f \in NameFields : RegexTest(pat, d.name[f])

RECURSIVE SelectByName(_, _)
SelectByName(s, pat) ==
    IF s = <<>> THEN <<>>
    ELSE IF NameMatches(Head(s), pat)
         THEN <<Head(s)>> \o SelectByName(Tail(s), pat)
         ELSE SelectByName(Tail(s), pat)

\* !x for a string parameter: undefined and the empty string are falsy
Falsy(v) == v = UNDEF \/ v = <<>>

SearchResponse(s, q) ==
    IF Falsy(Param(q, "name"))
    THEN ErrorResp(400, "Le parametre name est requis")
    ELSE DocsResp(SelectByName(s, Param(q, "name")))

---------------------------------------------------------------------------
(* GET /pokemon/filter: the filter object *)

\* filter.type = { $in: types } when req.query.types is truthy
TypeClause(q) ==
    IF Falsy(Param(q, "types")) THEN EmptyFilter
    ELSE QParam("type", [in |-> split(Param(q, "types"))])

MinKey(stat) == "min" \o stat
MaxKey(stat) == "max" \o stat

\* filter[`base.${stat}`] = {$gte: Number(minVal), $lte: Number(maxVal)},
\* each bound only when its parameter is defined
StatClause(q, stat) ==
    LET minVal == Param(q, MinKey(stat))
        maxVal == Param(q, MaxKey(stat))
        gte == IF minVal # UNDEF THEN QParam("gte", Number(minVal)) ELSE EmptyFilter
        lte == IF maxVal # UNDEF THEN QParam("lte", Number(maxVal)) ELSE EmptyFilter
    IN  IF minVal # UNDEF \/ maxVal # UNDEF
        THEN QParam(stat, gte @@ lte)
        ELSE EmptyFilter

RECURSIVE StatClauses(_, _)
StatClauses(q, i) ==
    IF i > Len(statFields) THEN EmptyFilter
    ELSE StatClause(q, statFields[i]) @@ StatClauses(q, i + 1)

BuildFilter(q) == TypeClause(q) @@ StatClauses(q, 1)

---------------------------------------------------------------------------
(* GET /pokemon/by-ids, /pokemon/list-all, /pokemon/:id *)

RECURSIVE NumbersOf(_)
NumbersOf(tokens) ==
    IF tokens = <<>> THEN <<>>
    ELSE <<Number(Head(tokens))>> \o NumbersOf(Tail(tokens))

\* ids.split(',').map(Number).filter(n => !isNaN(n))
idList(ids) ==
    LET nums == NumbersOf(split(ids))
    IN  {nums[i].val : i \in {j \in 1..Len(nums) : ~isNaN(nums[j])}}

RECURSIVE SelectIds(_, _)
SelectIds(s, idset) ==
    IF s = <<>> THEN <<>>
    ELSE IF Head(s).id \in idset
         THEN <<Head(s)>> \o SelectIds(Tail(s), idset)
         ELSE SelectIds(Tail(s), idset)

ByIdsResponse(s, q) ==
    IF Falsy(Param(q, "ids"))
    THEN ErrorResp(400, "Le parametre ids est requis")
    ELSE DocsResp(SortAsc(SelectIds(s, idList(Param(q, "ids")))))

\* .select('id name.english type image')
Project(d) ==
    [id |-> d.id, name |-> [english |-> d.name.english],
     type |-> d.type, image |-> d.image]

RECURSIVE ProjectAll(_)
ProjectAll(s) ==
    IF s = <<>> THEN <<>> ELSE <<Project(Head(s))>> \o ProjectAll(Tail(s))

ListAllResponse(s) == DocsResp(ProjectAll(SortAsc(s)))

\* a variant that addresses a document by its position in the collection
FirstIndexOf_ByPosition(s, n) == IF n \in 1..Len(s) THEN n ELSE 0

\* index of the first document, in natural order, whose id is n; 0 if none
FirstIndexOf(s, n) ==
    IF n \in Ids(s)
    THEN CHOOSE i \in 1..Len(s) :
            s[i].id = n /\ \A j \in 1..(i - 1) : s[j].id # n
    ELSE 0

\* findOne({ id: req.params.id })
GetByIdResponse(s, pathId) ==
    LET n == Number(pathId)
        i == FirstIndexOf(s, n.val)
    IN  IF CastFails(n) THEN ErrorResp(500, "CastError")
        ELSE IF i = 0 THEN ErrorResp(404, "Pokemon non trouve")
        ELSE [status |-> 200, doc |-> s[i]]

---------------------------------------------------------------------------
(* The read handlers *)

GetPokemons ==
    /\ req.route = "list" /\ resp = NoResp
    /\ loc' = Locals(req.query)
    /\ resp' = PagedResponse(store, EmptyFilter, Locals(req.query))
    /\ UNCHANGED <<store, uniqueIndex, pc, newId, postBody, req, allocLog>>

GetSearch ==
    /\ req.route = "search" /\ resp = NoResp
    /\ resp' = SearchResponse(store, req.query)
    /\ UNCHANGED <<store, uniqueIndex, pc, newId, postBody, req, loc, allocLog>>

GetFilter ==
    /\ req.route = "filter" /\ resp = NoResp
    /\ loc' = Locals(req.query)
    /\ resp' = PagedResponse(store, BuildFilter(req.query), Locals(req.query))
    /\ UNCHANGED <<store, uniqueIndex, pc, newId, postBody, req, allocLog>>

GetByIds ==
    /\ req.route = "by-ids" /\ resp = NoResp
    /\ resp' = ByIdsResponse(store, req.query)
    /\ UNCHANGED <<store, uniqueIndex, pc, newId, postBody, req, loc, allocLog>>

GetListAll ==
    /\ req.route = "list-all" /\ resp = NoResp
    /\ resp' = ListAllResponse(store)
    /\ UNCHANGED <<store, uniqueIndex, pc, newId, postBody, req, loc, allocLog>>

GetById ==
    /\ req.route = "get" /\ resp = NoResp
    /\ resp' = GetByIdResponse(store, req.id)
    /\ UNCHANGED <<store, uniqueIndex, pc, newId, postBody, req, loc, allocLog>>

---------------------------------------------------------------------------
(* The read side: a collection and one request, drawn from bounded sets *)

Pool ==
    { Doc(1, NameA, <<Grass, Poison>>, BaseA, DefaultImage(1)),
      Doc(2, NameB, <<Fire>>, BaseB, CustomImage),
      Doc(3, NameC, <<Water>>, BaseC, DefaultImage(3)),
      Doc(5, NameD, <<Fire, Flying>>, BaseD, DefaultImage(5)) }

\* every collection of at most MaxRecs documents of the pool, in every
\* natural order
QueryStores ==
    UNION { { s \in [1..n -> Pool] : \A i, j \in 1..n : i # j => s[i] # s[j] }
            : n \in 0..MaxRecs }

Opt(k, vals) == {EmptyQuery} \cup {QParam(k, v) : v \in vals}

PageVals ==
    { <<>>, <<"0">>, <<"1">>, <<"2">>, <<"3">>, <<"4">>, <<"-", "1">>,
      <<"a">>, <<"2", "a">>, <<" ", "2">> }

LimitVals ==
    { <<>>, <<"0">>, <<"1">>, <<"2">>, <<"3">>, <<"-", "1">>, <<"-", "2">>,
      <<"a">>, <<"2", "a">> }

ListRequests ==
    { Request("list", p @@ l, <<>>, EmptyQuery) :
        p \in Opt("page", PageVals), l \in Opt("limit", LimitVals) }

NameVals ==
    { <<>>, <<"a">>, <<"A">>, <<"c", "h">>, <<"b", "u">>, <<".">>, <<"z">>, <<"q">> }

SearchRequests ==
    { Request("search", n, <<>>, EmptyQuery) : n \in Opt("name", NameVals) }

IdsVals ==
    { <<>>, <<"1">>, <<"0">>, <<"a">>, <<"1", ",", "3">>, <<"3", ",", "1">>,
      <<"5", ",", " ", "2">>, <<"1", ",", ",", "3">>,
      <<"1", ",", "a", "b", "c", ",", "3">>, <<"a", ",", "b">> }

ByIdsRequests ==
    { Request("by-ids", i, <<>>, EmptyQuery) : i \in Opt("ids", IdsVals) }

PathIds == { <<"1">>, <<"2">>, <<"3">>, <<"5">>, <<"9">>, <<"a">> }

GetRequests == { Request("get", EmptyQuery, i, EmptyQuery) : i \in PathIds }

TypesVals ==
    { <<>>, Fire, Grass \o <<",">> \o <<"I", "c", "e">> }

MinVals == { <<"1">>, <<"2">>, <<"a">>, <<>> }

MaxVals == { <<"1">>, <<"2">>, <<"-", "1">>, <<"a">> }

NextStat(i) == statFields[(i % Len(statFields)) + 1]

\* the statistic parameters of a request: both bounds of one statistic and
\* the lower bound of the next one
StatQueries ==
    UNION { { lo @@ hi @@ lo2 :
                lo \in Opt(MinKey(statFields[i]), MinVals),
                hi \in Opt(MaxKey(statFields[i]), MaxVals),
                lo2 \in Opt(MinKey(NextStat(i)), {<<"2">>}) }
            : i \in 1..Len(statFields) }

FilterRequests ==
    { Request("filter", t @@ sq @@ p @@ l, <<>>, EmptyQuery) :
        t \in Opt("types", TypesVals),
        sq \in StatQueries,
        p \in Opt("page", {<<"2">>}),
        l \in Opt("limit", {<<"1">>}) }

QueryRequests ==
    ListRequests \cup SearchRequests \cup ByIdsRequests \cup GetRequests
        \cup FilterRequests \cup {Request("list-all", EmptyQuery, <<>>, EmptyQuery)}

QueryInit ==
    /\ store \in QueryStores
    /\ uniqueIndex = FALSE
    /\ pc = [c \in Clients |-> "idle"]
    /\ newId = [c \in Clients |-> 0]
    /\ postBody = [c \in Clients |-> EmptyQuery]
    /\ req \in QueryRequests
    /\ resp = NoResp
    /\ loc = NoLoc
    /\ allocLog = <<>>

QueryNext ==
    \/ GetPokemons
    \/ GetSearch
    \/ GetFilter
    \/ GetByIds
    \/ GetListAll
    \/ GetById

QuerySpec == QueryInit /\ [][QueryNext]_vars

---------------------------------------------------------------------------
(* The write handlers *)

\* the schema's validation of a document: the four name fields and the six
\* base fields are required (a missing type is the empty array)
ValidDoc(d) ==
    /\ DOMAIN d.name = NameFields
    /\ DOMAIN d.base = StatNames

Field(body, f, default) == IF f \in DOMAIN body THEN body[f] ELSE default

Missing == [k \in {} |-> 0]

\* the largest id of the collection: findOne({}).sort({ id: -1 })
MaxIdOf(s) == CHOOSE m \in Ids(s) : \A n \in Ids(s) : n <= m

\* a variant that numbers by the count of documents
NewId_ByCount(s) == Len(s) + 1

\* const newId = lastPokemon ? lastPokemon.id + 1 : 1
NewId(s) == IF s = <<>> THEN 1 ELSE MaxIdOf(s) + 1

\* new Pokemon({ id: newId, name, type, base, image: image || default })
NewPokemon(id, body) ==
    Doc(id, Field(body, "name", Missing), Field(body, "type", <<>>),
        Field(body, "base", Missing),
        IF Falsy(Field(body, "image", UNDEF)) THEN DefaultImage(id)
        ELSE body.image)

\* the insert is refused when the collection enforces unique ids and the
\* id is taken
DuplicateKey(s, id) == uniqueIndex /\ id \in Ids(s)

Saving == {c \in Clients : pc[c] = "saving"}

\* POST /pokemon, up to the await of findOne (lines 159-163)
PostRead(c, body) ==
    /\ pc[c] = "idle"
    /\ Len(store) + Cardinality(Saving) < MaxStore
    /\ Len(allocLog) + Cardinality(Saving) < MaxPosts
    /\ NewId(store) <= MaxId
    /\ pc' = [pc EXCEPT ![c] = "saving"]
    /\ newId' = [newId EXCEPT ![c] = NewId(store)]
    /\ postBody' = [postBody EXCEPT ![c] = body]
    /\ UNCHANGED <<store, uniqueIndex, req, resp, loc, allocLog>>

\* POST /pokemon, from new Pokemon(...) to the response (lines 165-177)
PostSave(c) ==
    LET doc == NewPokemon(newId[c], postBody[c])
        ok == ValidDoc(doc) /\ ~DuplicateKey(store, doc.id)
    IN  /\ pc[c] = "saving"
        /\ pc' = [pc EXCEPT ![c] = "idle"]
        /\ newId' = [newId EXCEPT ![c] = 0]
        /\ postBody' = [postBody EXCEPT ![c] = EmptyQuery]
        /\ req' = Request("post", EmptyQuery, <<>>, postBody[c])
        /\ store' = IF ok THEN Append(store, doc) ELSE store
        /\ allocLog' = IF ok THEN Append(allocLog, doc.id) ELSE allocLog
        /\ resp' = IF ok THEN [status |-> 201, doc |-> doc]
                   ELSE ErrorResp(400, "validation")
        /\ UNCHANGED <<uniqueIndex, loc>>

\* the update { ...body } applied to a document: each field of the body
\* replaces the document's ($set), the id cast to a number
ApplyUpdate(d, body) ==
    [f \in DOMAIN d |->
        IF f \in DOMAIN body
        THEN IF f = "id" THEN Number(body.id).val ELSE body[f]
        ELSE d[f]]

\* the update is refused before it is run when a value of the body does
\* not cast or validate
UpdateInvalid(body) ==
    \/ "id" \in DOMAIN body /\ CastFails(Number(body.id))
    \/ "name" \in DOMAIN body /\ DOMAIN body.name # NameFields
    \/ "base" \in DOMAIN body /\ DOMAIN body.base # StatNames

\* the ids of the documents other than the one at index i
OtherIds(s, i) == {s[j].id : j \in 1..Len(s) \ {i}}

\* PUT /pokemon/:id (lines 181-197)
Put(pathId, body) ==
    LET n == Number(pathId)
        i == FirstIndexOf(store, n.val)
        d == ApplyUpdate(store[i], body)
    IN  /\ req' = Request("put", EmptyQuery, pathId, body)
        /\ IF CastFails(n) \/ UpdateInvalid(body)
           THEN resp' = ErrorResp(400, "validation") /\ store' = store
           ELSE IF i = 0
           THEN resp' = ErrorResp(404, "Pokemon non trouve") /\ store' = store
           ELSE IF uniqueIndex /\ d.id \in OtherIds(store, i)
           THEN resp' = ErrorResp(400, "duplicate key") /\ store' = store
           ELSE /\ resp' = [status |-> 200, doc |-> d]
                /\ store' = [store EXCEPT ![i] = d]
        /\ UNCHANGED <<uniqueIndex, pc, newId, postBody, loc, allocLog>>

RemoveAt(s, i) == SubSeq(s, 1, i - 1) \o SubSeq(s, i + 1, Len(s))

\* DELETE /pokemon/:id (lines 200-212)
Delete(pathId) ==
    LET n == Number(pathId)
        i == FirstIndexOf(store, n.val)
    IN  /\ req' = Request("delete", EmptyQuery, pathId, EmptyQuery)
        /\ IF CastFails(n)
           THEN resp' = ErrorResp(500, "CastError") /\ store' = store
           ELSE IF i = 0
           THEN resp' = ErrorResp(404, "Pokemon non trouve") /\ store' = store
           ELSE /\ resp' = [status |-> 200, message |-> "Pokemon supprime",
                            pokemon |-> store[i]]
                /\ store' = RemoveAt(store, i)
        /\ UNCHANGED <<uniqueIndex, pc, newId, postBody, loc, allocLog>>

---------------------------------------------------------------------------
(* The write side: concurrent clients over an initially empty collection *)

PostBodies ==
    { [name |-> NameA, type |-> <<Grass, Poison>>, base |-> BaseA],
      [name |-> NameB, type |-> <<Fire>>, base |-> BaseB, image |-> CustomImage],
      [type |-> <<Water>>, base |-> BaseC] }

PutBodies ==
    {EmptyQuery} \cup {QParam("id", v) : v \in {<<"1">>, <<"3">>, <<"a">>}}
        \cup { [name |-> NameC] }

CrudPathIds == { <<"1">>, <<"2">>, <<"a">> }

Init ==
    /\ store = <<>>
    /\ uniqueIndex \in BOOLEAN
    /\ pc = [c \in Clients |-> "idle"]
    /\ newId = [c \in Clients |-> 0]
    /\ postBody = [c \in Clients |-> EmptyQuery]
    /\ req = NoReq
    /\ resp = NoResp
    /\ loc = NoLoc
    /\ allocLog = <<>>

Next ==
    \/ \E c \in Clients, body \in PostBodies : PostRead(c, body)
    \/ \E c \in Clients : PostSave(c)
    \/ \E pathId \in CrudPathIds, body \in PutBodies : Put(pathId, body)
    \/ \E pathId \in CrudPathIds : Delete(pathId)

Spec == Init /\ [][Next]_vars

\* requests that do not overlap: a request starts only when none is being
\* handled
AllIdle == \A c \in Clients : pc[c] = "idle"

SeqNext ==
    \/ AllIdle /\ \E c \in Clients, body \in PostBodies : PostRead(c, body)
    \/ \E c \in Clients : PostSave(c)
    \/ AllIdle /\ \E pathId \in CrudPathIds, body \in PutBodies : Put(pathId, body)
    \/ AllIdle /\ \E pathId \in CrudPathIds : Delete(pathId)

SeqSpec == Init /\ [][SeqNext]_vars

---------------------------------------------------------------------------
(* What the claims speak of, stated without the handlers' own parsing *)

\* the value of a non-empty string of decimal digits
RECURSIVE DecimalValue(_)
DecimalValue(s) ==
    IF Len(s) = 1 THEN DigitVal(s[1])
    ELSE 10 * DecimalValue(SubSeq(s, 1, Len(s) - 1)) + DigitVal(s[Len(s)])

\* an integer literal: digits, or "-" and digits
IsIntString(s) ==
    /\ s # UNDEF
    /\ \/ AllDigits(s)
       \/ Len(s) > 1 /\ s[1] = "-" /\ AllDigits(SubSeq(s, 2, Len(s)))

IntValue(s) ==
    IF s[1] = "-" THEN 0 - DecimalValue(SubSeq(s, 2, Len(s))) ELSE DecimalValue(s)

IsPositiveIntString(s) == IsIntString(s) /\ IntValue(s) > 0

Present(q, k) == k \in DOMAIN q

Handled(route) == req.route = route /\ resp # NoResp

Paged == (Handled("list") \/ Handled("filter"))

IdsInOrder(s) == [i \in 1..Len(s) |-> s[i].id]

IsAscendingById(s) == \A i, j \in 1..Len(s) : i < j => s[i].id <= s[j].id

\* the least n with n * limit >= total: ceil(total / limit) for limit > 0
CeilOf(total, limit) ==
    CHOOSE n \in 0..total : n * limit >= total /\ \A m \in 0..(n - 1) : m * limit < total

StoreDocs == SeqToSet(store)

---------------------------------------------------------------------------
(* C1: in every reachable state, under any interleaving of concurrent
   POST /pokemon requests, no two live records of the store have the same
   id. *)
C1_UniqueIds ==
    \A i, j \in 1..Len(store) : i # j => store[i].id # store[j].id

(* C2, as claimed: over sequential requests every successful POST assigns
   an id strictly greater than the id assigned by every earlier successful
   POST. *)
C2_StrictlyIncreasingAllocation ==
    \A i, j \in 1..Len(allocLog) : i < j => allocLog[i] < allocLog[j]

PostSucceeds == Len(allocLog') = Len(allocLog) + 1

AssignedId == allocLog'[Len(allocLog')]

(* C2, amended: over sequential requests every successful POST assigns one
   more than the largest id live in the store at that moment (1 on an empty
   store), hence an id strictly greater than every live record's id. *)
C2_NewIdIsMaxLivePlusOne ==
    [][PostSucceeds =>
         /\ \A n \in Ids(store) : AssignedId > n
         /\ store = <<>> => AssignedId = 1
         /\ store # <<>> => AssignedId - 1 \in Ids(store)
         /\ store' = Append(store, store'[Len(store')])
         /\ store'[Len(store')].id = AssignedId]_vars

\* a successful POST has assigned again an id that an earlier POST assigned
C2_ReusedIdWitness ==
    /\ req.route = "post" /\ resp.status = 201
    /\ \E i \in 1..(Len(allocLog) - 1) : allocLog[i] = allocLog[Len(allocLog)]
    /\ resp.doc.id = allocLog[Len(allocLog)]

(* C3, as claimed: for every PUT /pokemon/:id, whatever its body, the id of
   every record after the update equals its id before the update. *)
C3_IdImmutableOnPut ==
    [][req'.route = "put" => IdsInOrder(store') = IdsInOrder(store)]_vars

(* C3, amended: a PUT whose body has no id field changes no record's id; a
   PUT whose body supplies an id changes at most the id of the addressed
   record (the first whose id is the path's), to the supplied number; the
   id of every other record is unchanged. *)
C3_PutChangesOnlyAddressedId ==
    [][req'.route = "put" =>
         /\ Len(store') = Len(store)
         /\ \A i \in 1..Len(store) :
              store'[i].id # store[i].id =>
                 /\ Present(req'.body, "id")
                 /\ resp'.status = 200
                 /\ store[i].id = IntValue(req'.id)
                 /\ store'[i].id = IntValue(req'.body.id)
                 /\ \A j \in 1..Len(store) : j # i => store'[j] = store[j]
         /\ ~Present(req'.body, "id") => IdsInOrder(store') = IdsInOrder(store)]_vars

\* a PUT with an id in its body has been answered 200 and the addressed
\* record now carries another id than the path's
C3_PutChangedIdWitness ==
    /\ req.route = "put" /\ resp.status = 200
    /\ Present(req.body, "id")
    /\ resp.doc.id # IntValue(req.id)
    /\ resp.doc.id \in Ids(store)
    /\ Len(store) = 2

---------------------------------------------------------------------------
\* what the claim has a page or limit parameter resolve to
ResolvedAs(v, default) == IF IsPositiveIntString(v) THEN IntValue(v) ELSE default

(* C4: for GET /pokemon and GET /pokemon/filter the resolved page and limit
   are always positive integers: 1 and 20 whenever the parameter is absent
   or is not a positive integer (zero and negative integers included), the
   supplied value otherwise; skip is (page - 1) * limit and never
   negative. *)
C4_ResolvedPageLimitPositive ==
    Paged =>
        /\ loc.page = ResolvedAs(Param(req.query, "page"), 1)
        /\ loc.limit = ResolvedAs(Param(req.query, "limit"), 20)
        /\ loc.page >= 1 /\ loc.limit >= 1
        /\ loc.skip = (loc.page - 1) * loc.limit
        /\ loc.skip >= 0

NonPositiveLimitParam ==
    /\ IsIntString(Param(req.query, "limit"))
    /\ IntValue(Param(req.query, "limit")) <= 0

(* C5: in the envelope of GET /pokemon and GET /pokemon/filter, totalPages
   is ceil(total / limit) for a positive limit, and is 0 (never negative)
   for every request whose limit parameter is zero or negative. *)
C5_TotalPagesCeilOrZero ==
    (Paged /\ resp.status = 200) =>
        /\ resp.totalPages >= 0
        /\ NonPositiveLimitParam => resp.totalPages = 0
        /\ (~NonPositiveLimitParam /\ resp.limit > 0)
              => resp.totalPages = CeilOf(resp.total, resp.limit)

BoundKeys == {MinKey(st) : st \in StatNames} \cup {MaxKey(st) : st \in StatNames}

SomeBoundNotNumeric(q) ==
    \E k \in BoundKeys : Present(q, k) /\ ~IsIntString(q[k])

(* C6: for GET /pokemon/filter, whenever a supplied min<Stat> or max<Stat>
   parameter is not a numeric string the request is answered 400; it is not
   answered 200 with an envelope. *)
C6_NonNumericBoundRejected ==
    (Handled("filter") /\ SomeBoundNotNumeric(req.query)) => resp.status = 400

ListingRoutes == {"list", "filter", "search", "by-ids", "list-all"}

Items == IF req.route \in {"list", "filter"} THEN resp.pokemons ELSE resp.docs

(* C7: the results of GET /pokemon, /pokemon/filter, /pokemon/search,
   /pokemon/by-ids and /pokemon/list-all are in ascending order of id,
   whatever order the store yields unsorted results in. *)
C7_ResultsAscendingById ==
    (req.route \in ListingRoutes /\ resp # NoResp /\ resp.status = 200)
        => IsAscendingById(Items)

\* a token of the comma-separated list: a maximal comma-free segment
IsToken(s, tok) ==
    \E a \in 1..(Len(s) + 1) : \E b \in (a - 1)..Len(s) :
        /\ SubSeq(s, a, b) = tok
        /\ \A i \in a..b : s[i] # ","
        /\ a = 1 \/ s[a - 1] = ","
        /\ b = Len(s) \/ s[b + 1] = ","

\* a token that parses as a number, white space around it aside
NumericTokenFor(s, n) ==
    \E a \in 1..(Len(s) + 1) : \E b \in (a - 1)..Len(s) :
        /\ IsToken(s, SubSeq(s, a, b))
        /\ \E c \in a..b : \E d \in c..b :
              /\ \A i \in (a..(c - 1)) \cup ((d + 1)..b) : s[i] = " "
              /\ IsIntString(SubSeq(s, c, d))
              /\ IntValue(SubSeq(s, c, d)) = n

(* C8: GET /pokemon/by-ids with the ids parameter supplied always succeeds
   with exactly the records whose id is one of the tokens that parse as
   numbers, in ascending order of id (an empty or wholly non-numeric ids
   gives an empty array); only an absent ids parameter is answered 400. *)
C8_ByIdsSuppliedSucceeds ==
    Handled("by-ids") =>
        IF ~Present(req.query, "ids") THEN resp.status = 400
        ELSE /\ resp.status = 200
             /\ IsAscendingById(resp.docs)
             /\ SeqToSet(resp.docs) =
                   {d \in StoreDocs : NumericTokenFor(req.query.ids, d.id)}
             /\ Len(resp.docs) = Cardinality(SeqToSet(resp.docs))

---------------------------------------------------------------------------
ValidPaging(q) ==
    /\ IsPositiveIntString(Param(q, "page"))
    /\ IsPositiveIntString(Param(q, "limit"))

\* the number of documents of the store whose id is smaller than d's
RankOf(d) == Cardinality({e \in StoreDocs : e.id < d.id})

\* the page that GET /pokemon answers for page number p (below 10) and the
\* request's limit
PageNumber(p) ==
    PagedResponse(store, EmptyFilter,
                  Locals(QParam("page", <<Digits[p + 1]>>)
                            @@ QParam("limit", req.query.limit))).pokemons

Max0(n) == IF n < 0 THEN 0 ELSE n

(* C9: on an unchanged store and for every valid (positive integer) page
   and limit, GET /pokemon returns exactly the records at positions
   skip+1 .. skip+limit of the store in ascending order of id, with
   skip = (page-1)*limit: min(limit, total - skip) records (none if
   skip >= total), total the number of records, totalPages =
   ceil(total / limit), and the pages 1..totalPages hold every record
   exactly once. *)
C9_ListPageIsSliceOfSortedStore ==
    (Handled("list") /\ ValidPaging(req.query)) =>
        LET page == IntValue(req.query.page)
            limit == IntValue(req.query.limit)
            skip == (page - 1) * limit
        IN  /\ resp.status = 200
            /\ resp.page = page /\ resp.limit = limit
            /\ loc.skip = skip
            /\ resp.total = Len(store)
            /\ resp.totalPages = CeilOf(Len(store), limit)
            /\ Len(resp.pokemons) = Min(limit, Max0(Len(store) - skip))
            /\ \A k \in 1..Len(resp.pokemons) :
                  /\ resp.pokemons[k] \in StoreDocs
                  /\ RankOf(resp.pokemons[k]) = skip + k - 1
            /\ \A d \in StoreDocs :
                  Cardinality({p \in 1..resp.totalPages :
                                  d \in SeqToSet(PageNumber(p))}) = 1

\* the second page of two records has been served from a store of three
\* whose natural order is not the order of the ids
C9_SecondPageWitness ==
    /\ Handled("list") /\ ValidPaging(req.query)
    /\ IntValue(req.query.page) = 2 /\ IntValue(req.query.limit) = 2
    /\ Len(store) = 3 /\ store[1].id > store[3].id
    /\ resp.status = 200 /\ Len(resp.pokemons) = 1
    /\ resp.totalPages = 2

AllBoundsNumeric(q) == ~SomeBoundNotNumeric(q)

TypesSupplied(q) == Present(q, "types") /\ q.types # <<>>

\* what the claim has a record match
ShouldMatch(d, q) ==
    /\ \A st \in StatNames :
          /\ Present(q, MinKey(st)) => d.base[st] >= IntValue(q[MinKey(st)])
          /\ Present(q, MaxKey(st)) => d.base[st] <= IntValue(q[MaxKey(st)])
    /\ TypesSupplied(q) =>
          \E i \in 1..Len(d.type) : IsToken(q.types, d.type[i])

(* C10: for GET /pokemon/filter with numeric bounds, a record is counted in
   total and eligible for the page if and only if every supplied bound
   holds for each of the six statistics (base.field >= min, base.field <=
   max) and, when a types list is supplied, its type sequence shares a
   value with the list; with no filter parameter every record matches. *)
C10_FilterMatchesIffBoundsAndTypes ==
    (Handled("filter") /\ AllBoundsNumeric(req.query)) =>
        LET matching == {d \in StoreDocs : ShouldMatch(d, req.query)}
        IN  /\ resp.status = 200
            /\ resp.total = Cardinality(matching)
            /\ SeqToSet(resp.pokemons) \subseteq matching
            /\ Len(resp.pokemons) =
                  Min(Abs(loc.limit), Max0(Cardinality(matching) - loc.skip))
            /\ DOMAIN req.query \subseteq {"page", "limit"}
                  => resp.total = Len(store)

\* a filter on a types list and on bounds of two statistics has matched
\* some records of the store and not others
C10_FilterWitness ==
    /\ Handled("filter") /\ AllBoundsNumeric(req.query)
    /\ TypesSupplied(req.query)
    /\ Present(req.query, "minAttack") /\ Present(req.query, "maxAttack")
    /\ Present(req.query, "minDefense")
    /\ resp.status = 200
    /\ resp.total = 1 /\ Len(store) = 3
    /\ \E d \in StoreDocs :
          /\ \E i \in 1..Len(d.type) : IsToken(req.query.types, d.type[i])
          /\ ~ShouldMatch(d, req.query)

=============================================================================
